---- MODULE Spec2Model ----
(***************************************************************************)
(* A model of caddy-usage (caddy_usage.go): the client-IP resolver, the    *)
(* header label derivation, the metric instruments and their registration, *)
(* and ServeHTTP, as one step and statement by statement.                  *)
(*                                                                         *)
(* A Go string is modelled as a sequence of bytes, each byte written as a  *)
(* TLA+ string: "a", ",", ":" ... for ASCII bytes, LeadByte and ContByte   *)
(* for the two bytes of a two-byte UTF-8 character.  len(s) is Len(s) and  *)
(* s[:n] is SubSeq(s, 1, n), as in Go, where both count bytes.             *)
(***************************************************************************)
EXTENDS Integers, Sequences, FiniteSets, TLC

VARIABLES
    registry,            \* per registry, per metric name: the registered instrument
    globalUsageMetrics,  \* the package variable: 0 (nil) or the id of a usageMetrics
    sets,                \* the usageMetrics constructed so far: id -> instruments' series
    loggers,             \* per UsageCollector: whether Provision has set uc.logger
    req,                 \* the request most recently handed to the code
    served,              \* the number of ServeHTTP calls so far
    last,                \* the most recent call and what it returned
    calls,               \* the ServeHTTP calls in progress: position and locals of each
    regs                 \* the registerMetrics calls in progress, statement by statement

vars == <<registry, globalUsageMetrics, sets, loggers, req, served, last, calls, regs>>

-----------------------------------------------------------------------------
(* Bounds of the model *)

\* longest X-Forwarded-For value of the resolver's inputs
MaxHdrLen == 3
\* longest RemoteAddr of the resolver's inputs
MaxAddrLen == 6
\* header values of the header inputs have lengths within MaxSlack of the limit
MaxSlack == 2
\* ServeHTTP calls in one behaviour
MaxRequests == 2
\* initializeMetrics calls in one behaviour
MaxSets == 3
\* ServeHTTP calls that run concurrently
MaxCalls == 2

\* the registerMetrics calls that may run at the same time
MaxRegs == 2

-----------------------------------------------------------------------------
(* Go strings *)

LeadByte == "C3"
ContByte == "A9"

\* unicode.IsSpace on the ASCII range, as strings.TrimSpace uses it
IsSpace(c) == c \in {" ", "\t", "\n", "\r", "\f"}

\* strings.Index(s, c) for a one-byte c: the 0-based index of its first
\* occurrence, -1 when there is none
Index(s, c) ==
    IF \E i \in 1..Len(s) : s[i] = c
    THEN (CHOOSE i \in 1..Len(s) : s[i] = c /\ \A j \in 1..(i-1) : s[j] # c) - 1
    ELSE -1

\* strings.HasPrefix(s, c) for a one-byte c
HasPrefix(s, c) == Len(s) >= 1 /\ s[1] = c

\* strings.Split(s, sep) for a one-byte sep: always at least one element
RECURSIVE Split(_, _)
Split(s, sep) ==
    LET i == Index(s, sep)
    IN  IF i = -1
        THEN <<s>>
        ELSE <<SubSeq(s, 1, i)>> \o Split(SubSeq(s, i + 2, Len(s)), sep)

RECURSIVE TrimLeft(_)
TrimLeft(s) ==
    IF Len(s) > 0 /\ IsSpace(s[1]) THEN TrimLeft(Tail(s)) ELSE s

RECURSIVE TrimRight(_)
TrimRight(s) ==
    IF Len(s) > 0 /\ IsSpace(s[Len(s)])
    THEN TrimRight(SubSeq(s, 1, Len(s) - 1))
    ELSE s

\* strings.TrimSpace
TrimSpace(s) == TrimRight(TrimLeft(s))

\* http.Header.Get: the value stored under the name, "" when there is none
HeaderGet(h, name) == IF name \in DOMAIN h THEN h[name] ELSE <<>>

-----------------------------------------------------------------------------
(* getClientIP *)

getClientIP_NoTrim(r) ==
    LET xff == HeaderGet(r.Header, "X-Forwarded-For")
        xri == HeaderGet(r.Header, "X-Real-IP")
        xf  == HeaderGet(r.Header, "X-Forwarded")
        ra  == r.RemoteAddr
    IN  IF xff # <<>> /\ Len(Split(xff, ",")) > 0
        THEN Split(xff, ",")[1]
        ELSE IF xri # <<>> THEN xri
        ELSE IF xf # <<>> THEN xf
        ELSE IF HasPrefix(ra, "[") /\ Index(ra, "]") # -1
        THEN SubSeq(ra, 1, Index(ra, "]") + 1)
        ELSE IF Len(Split(ra, ":")) > 0 THEN Split(ra, ":")[1]
        ELSE ra

getClientIP_ForwardedFirst(r) ==
    LET xff == HeaderGet(r.Header, "X-Forwarded-For")
        xri == HeaderGet(r.Header, "X-Real-IP")
        xf  == HeaderGet(r.Header, "X-Forwarded")
        ra  == r.RemoteAddr
    IN  IF xff # <<>> /\ Len(Split(xff, ",")) > 0
        THEN TrimSpace(Split(xff, ",")[1])
        ELSE IF xf # <<>> THEN xf
        ELSE IF xri # <<>> THEN TrimSpace(xri)
        ELSE IF HasPrefix(ra, "[") /\ Index(ra, "]") # -1
        THEN SubSeq(ra, 1, Index(ra, "]") + 1)
        ELSE IF Len(Split(ra, ":")) > 0 THEN Split(ra, ":")[1]
        ELSE ra

getClientIP_PresentWins(r) ==
    LET xri == HeaderGet(r.Header, "X-Real-IP")
        xf  == HeaderGet(r.Header, "X-Forwarded")
        ra  == r.RemoteAddr
    IN  IF "X-Forwarded-For" \in DOMAIN r.Header
        THEN TrimSpace(Split(r.Header["X-Forwarded-For"], ",")[1])
        ELSE IF xri # <<>> THEN xri
        ELSE IF xf # <<>> THEN xf
        ELSE IF HasPrefix(ra, "[") /\ Index(ra, "]") # -1
        THEN SubSeq(ra, 1, Index(ra, "]") + 1)
        ELSE IF Len(Split(ra, ":")) > 0 THEN Split(ra, ":")[1]
        ELSE ra

getClientIP_LastColon(r) ==
    LET xff == HeaderGet(r.Header, "X-Forwarded-For")
        xri == HeaderGet(r.Header, "X-Real-IP")
        xf  == HeaderGet(r.Header, "X-Forwarded")
        ra  == r.RemoteAddr
        ip  == Split(ra, ":")
    IN  IF xff # <<>> /\ Len(Split(xff, ",")) > 0
        THEN TrimSpace(Split(xff, ",")[1])
        ELSE IF xri # <<>> THEN xri
        ELSE IF xf # <<>> THEN xf
        ELSE IF HasPrefix(ra, "[") /\ Index(ra, "]") # -1
        THEN SubSeq(ra, 1, Index(ra, "]") + 1)
        ELSE IF Len(ip) > 1 THEN SubSeq(ra, 1, Len(ra) - Len(ip[Len(ip)]) - 1)
        ELSE ra

getClientIP_NoBracket(r) ==
    LET xff == HeaderGet(r.Header, "X-Forwarded-For")
        xri == HeaderGet(r.Header, "X-Real-IP")
        xf  == HeaderGet(r.Header, "X-Forwarded")
        ra  == r.RemoteAddr
    IN  IF xff # <<>> /\ Len(Split(xff, ",")) > 0
        THEN TrimSpace(Split(xff, ",")[1])
        ELSE IF xri # <<>> THEN xri
        ELSE IF xf # <<>> THEN xf
        ELSE IF Len(Split(ra, ":")) > 0 THEN Split(ra, ":")[1]
        ELSE ra

getClientIP_UnclosedRaw(r) ==
    LET xff == HeaderGet(r.Header, "X-Forwarded-For")
        xri == HeaderGet(r.Header, "X-Real-IP")
        xf  == HeaderGet(r.Header, "X-Forwarded")
        ra  == r.RemoteAddr
    IN  IF xff # <<>> /\ Len(Split(xff, ",")) > 0
        THEN TrimSpace(Split(xff, ",")[1])
        ELSE IF xri # <<>> THEN xri
        ELSE IF xf # <<>> THEN xf
        ELSE IF HasPrefix(ra, "[")
        THEN IF Index(ra, "]") # -1 THEN SubSeq(ra, 1, Index(ra, "]") + 1) ELSE ra
        ELSE IF Len(Split(ra, ":")) > 0 THEN Split(ra, ":")[1]
        ELSE ra

\* getClientIP(r): the first match of X-Forwarded-For, X-Real-IP, X-Forwarded,
\* RemoteAddr
getClientIP(r) ==
    LET xff == HeaderGet(r.Header, "X-Forwarded-For")
        xri == HeaderGet(r.Header, "X-Real-IP")
        xf  == HeaderGet(r.Header, "X-Forwarded")
        ra  == r.RemoteAddr
    IN  IF xff # <<>> /\ Len(Split(xff, ",")) > 0
        THEN TrimSpace(Split(xff, ",")[1])
        ELSE IF xri # <<>> THEN xri
        ELSE IF xf # <<>> THEN xf
        ELSE IF HasPrefix(ra, "[") /\ Index(ra, "]") # -1
        THEN SubSeq(ra, 1, Index(ra, "]") + 1)
        ELSE IF Len(Split(ra, ":")) > 0 THEN Split(ra, ":")[1]
        ELSE ra

-----------------------------------------------------------------------------
(* The instruments and the registry *)

\* the five instruments, in the order of the collectors slice
MetricNames ==
    << "requests_total", "requests_by_ip_total", "requests_by_url_total",
       "requests_by_headers_total", "request_duration_seconds" >>

MetricNameSet == {MetricNames[i] : i \in 1..Len(MetricNames)}

Registries == {"R1", "R2"}
Collectors == {"uc1", "uc2"}

\* what a registry holds under a name: nothing, another component's collector
\* of that name with a different descriptor, or the instrument of the
\* usageMetrics with that id
NoInstrument == 0
Foreign == -1

Nil == "nil"
AlreadyRegisteredError == "AlreadyRegisteredError"
OtherError == "descriptor mismatch"

EmptyRegistry == [n \in MetricNameSet |-> NoInstrument]

\* a usageMetrics as constructed by initializeMetrics: five instruments
\* without series
NewUsageMetrics ==
    [ requestsTotal     |-> <<>>,
      requestsByIP      |-> <<>>,
      requestsByURL     |-> <<>>,
      requestsByHeaders |-> <<>>,
      requestDuration   |-> <<>> ]

\* registry.Register(collector) for the instrument `name` of usageMetrics `id`
Register(reg, name, id) ==
    IF reg[name] = NoInstrument
    THEN [reg |-> [reg EXCEPT ![name] = id], err |-> Nil]
    ELSE IF reg[name] = Foreign
    THEN [reg |-> reg, err |-> OtherError]
    ELSE [reg |-> reg, err |-> AlreadyRegisteredError]

RECURSIVE RegisterFrom_NoSwallow(_, _, _)
RegisterFrom_NoSwallow(reg, id, i) ==
    IF i > Len(MetricNames)
    THEN [reg |-> reg, err |-> Nil]
    ELSE LET res == Register(reg, MetricNames[i], id)
         IN  IF res.err # Nil
             THEN [reg |-> res.reg, err |-> res.err]
             ELSE RegisterFrom_NoSwallow(res.reg, id, i + 1)

RECURSIVE RegisterFrom_SwallowAll(_, _, _)
RegisterFrom_SwallowAll(reg, id, i) ==
    IF i > Len(MetricNames)
    THEN [reg |-> reg, err |-> Nil]
    ELSE RegisterFrom_SwallowAll(Register(reg, MetricNames[i], id).reg, id, i + 1)

\* the loop of initializeMetrics from the i-th collector on: stops at the
\* first error that is not an AlreadyRegisteredError
RECURSIVE RegisterFrom(_, _, _)
RegisterFrom(reg, id, i) ==
    IF i > Len(MetricNames)
    THEN [reg |-> reg, err |-> Nil]
    ELSE LET res == Register(reg, MetricNames[i], id)
         IN  IF res.err # Nil /\ res.err # AlreadyRegisteredError
             THEN [reg |-> res.reg, err |-> res.err]
             ELSE RegisterFrom(res.reg, id, i + 1)

initializeMetrics_Rollback(reg, id) ==
    LET res == RegisterFrom(reg, id, 1)
    IN  [ reg     |-> IF res.err = Nil THEN res.reg ELSE reg,
          metrics |-> IF res.err = Nil THEN id ELSE 0,
          err     |-> res.err ]

\* initializeMetrics(registry): the usageMetrics it constructs gets the next
\* id; it returns (metrics, nil) or (nil, err)
initializeMetrics(reg, id) ==
    LET res == RegisterFrom(reg, id, 1)
    IN  [ reg     |-> res.reg,
          metrics |-> IF res.err = Nil THEN id ELSE 0,
          err     |-> res.err ]

-----------------------------------------------------------------------------
(* Recording a request *)

\* strconv.Itoa for a status code
Digit(d) == <<"0", "1", "2", "3", "4", "5", "6", "7", "8", "9">>[d + 1]

RECURSIVE Itoa(_)
Itoa(n) == IF n < 10 THEN <<Digit(n)>> ELSE Itoa(n \div 10) \o <<Digit(n % 10)>>

\* url.URL.String(): scheme and host when set, the path, "?" and the query
\* when there is one
URLString(u) ==
    (IF u.Scheme # <<>> THEN u.Scheme \o <<":", "/", "/">> \o u.Host ELSE <<>>)
        \o u.Path
        \o (IF u.RawQuery # <<>> THEN <<"?">> \o u.RawQuery ELSE <<>>)

\* CounterVec.WithLabelValues(lvs...).Inc(): the series is created at 0 on
\* its first use
Inc(vec, lvs) ==
    [l \in DOMAIN vec \cup {lvs} |->
        IF l = lvs
        THEN (IF lvs \in DOMAIN vec THEN vec[lvs] ELSE 0) + 1
        ELSE vec[l]]

\* HistogramVec.WithLabelValues(lvs...).Observe(v)
Observe(vec, lvs, v) ==
    [l \in DOMAIN vec \cup {lvs} |->
        IF l = lvs
        THEN [ count |-> (IF lvs \in DOMAIN vec THEN vec[lvs].count ELSE 0) + 1,
               sum   |-> (IF lvs \in DOMAIN vec THEN vec[lvs].sum ELSE 0) + v ]
        ELSE vec[l]]

\* the limit on the length of a header_value label
MaxLabelLen == 100

Ellipsis == <<".", ".", ".">>
Present == <<"p", "r", "e", "s", "e", "n", "t">>

importantHeaders ==
    << "User-Agent", "Referer", "Accept", "Accept-Language", "Accept-Encoding",
       "Content-Type", "Authorization", "X-Forwarded-For", "X-Real-IP", "Origin" >>

headerLabel_RawAuthorization(headerName, headerValue) ==
    IF Len(headerValue) > MaxLabelLen
    THEN SubSeq(headerValue, 1, MaxLabelLen) \o Ellipsis
    ELSE headerValue

\* the header_value label of a non-empty header value: "present" for
\* Authorization, then the cut to MaxLabelLen bytes
headerLabel(headerName, headerValue) ==
    LET v == IF headerName = "Authorization" THEN Present ELSE headerValue
    IN  IF Len(v) > MaxLabelLen
        THEN SubSeq(v, 1, MaxLabelLen) \o Ellipsis
        ELSE v

RECURSIVE headersFrom_AllHeaders(_, _, _, _, _)
headersFrom_AllHeaders(vec, r, method, statusCode, i) ==
    LET names == {n \in DOMAIN r.Header : r.Header[n] # <<>>}
    IN  IF names = {}
        THEN vec
        ELSE LET n == CHOOSE x \in names : TRUE
             IN  headersFrom_AllHeaders(
                     Inc(vec, <<n, headerLabel(n, r.Header[n]), method, statusCode>>),
                     [r EXCEPT !.Header = [x \in DOMAIN r.Header \ {n} |-> r.Header[x]]],
                     method, statusCode, i)

\* the loop of collectHeaderMetrics from the i-th header name on, applied to
\* the requestsByHeaders instrument
RECURSIVE headersFrom(_, _, _, _, _)
headersFrom(vec, r, method, statusCode, i) ==
    IF i > Len(importantHeaders)
    THEN vec
    ELSE LET headerName  == importantHeaders[i]
             headerValue == HeaderGet(r.Header, headerName)
         IN  headersFrom(
                 IF headerValue # <<>>
                 THEN Inc(vec, <<headerName, headerLabel(headerName, headerValue),
                                 method, statusCode>>)
                 ELSE vec,
                 r, method, statusCode, i + 1)

\* collectHeaderMetrics(um, r, method, statusCode)
collectHeaderMetrics(um, r, method, statusCode) ==
    [um EXCEPT !.requestsByHeaders = headersFrom(@, r, method, statusCode, 1)]

recordInto_PathAsURL(um, r, status, duration) ==
    LET statusCode == Itoa(status)
        method     == r.Method
        host       == r.Host
        path       == r.URL.Path
        clientIP   == getClientIP(r)
        base       == [um EXCEPT
                        !.requestsTotal   = Inc(@, <<statusCode, method, host, path>>),
                        !.requestsByIP    = Inc(@, <<clientIP, statusCode, method>>),
                        !.requestsByURL   = Inc(@, <<path, method, statusCode>>),
                        !.requestDuration = Observe(@, <<method, statusCode, host>>, duration)]
    IN  collectHeaderMetrics(base, r, method, statusCode)

recordInto_URLLabelsAsIP(um, r, status, duration) ==
    LET statusCode == Itoa(status)
        method     == r.Method
        host       == r.Host
        path       == r.URL.Path
        fullURL    == URLString(r.URL)
        clientIP   == getClientIP(r)
        base       == [um EXCEPT
                        !.requestsTotal   = Inc(@, <<statusCode, method, host, path>>),
                        !.requestsByIP    = Inc(@, <<clientIP, statusCode, method>>),
                        !.requestsByURL   = Inc(@, <<fullURL, statusCode, method>>),
                        !.requestDuration = Observe(@, <<method, statusCode, host>>, duration)]
    IN  collectHeaderMetrics(base, r, method, statusCode)

\* the updates of collectMetrics on the usageMetrics um, for the status the
\* response recorder holds and the measured duration
recordInto(um, r, status, duration) ==
    LET statusCode == Itoa(status)
        method     == r.Method
        host       == r.Host
        path       == r.URL.Path
        fullURL    == URLString(r.URL)
        clientIP   == getClientIP(r)
        base       == [um EXCEPT
                        !.requestsTotal   = Inc(@, <<statusCode, method, host, path>>),
                        !.requestsByIP    = Inc(@, <<clientIP, statusCode, method>>),
                        !.requestsByURL   = Inc(@, <<fullURL, method, statusCode>>),
                        !.requestDuration = Observe(@, <<method, statusCode, host>>, duration)]
    IN  collectHeaderMetrics(base, r, method, statusCode)

collectMetrics_NoGuard(ss, global, r, status, duration) ==
    LET um == IF global = 0 THEN Len(ss) ELSE global
    IN  IF um = 0
        THEN ss
        ELSE [ss EXCEPT ![um] = recordInto(@, r, status, duration)]

\* collectMetrics: nothing when globalUsageMetrics is nil, the updates on the
\* global usageMetrics otherwise
collectMetrics(ss, global, r, status, duration) ==
    IF global = 0
    THEN ss
    ELSE [ss EXCEPT ![global] = recordInto(@, r, status, duration)]

-----------------------------------------------------------------------------
(* Inputs *)

\* all byte strings over an alphabet, up to a length
Strs(alphabet, n) == UNION {[1..k -> alphabet] : k \in 0..n}

\* a header that may be missing: <<>> (no such header) or <<value>>
Opt(values) == {<<>>} \cup {<<v>> : v \in values}

\* the http.Header holding the headers that are there
MkHeader(o) == [n \in {m \in DOMAIN o : o[m] # <<>>} |-> o[n][1]]

ProxyHeaders(xff, xri, xf) ==
    [n \in {"X-Forwarded-For", "X-Real-IP", "X-Forwarded"} |->
        IF n = "X-Forwarded-For" THEN xff ELSE IF n = "X-Real-IP" THEN xri ELSE xf]

GET == <<"G", "E", "T">>
POST == <<"P", "O", "S", "T">>
Host1 == <<"a", ".", "c", "o", "m">>

MkRequest(method, path, query, header, remoteAddr) ==
    [ Method     |-> method,
      Host       |-> Host1,
      URL        |-> [Scheme |-> <<>>, Host |-> <<>>, Path |-> path, RawQuery |-> query],
      Header     |-> header,
      RemoteAddr |-> remoteAddr ]

NoRequest == [Method |-> <<>>]

SampleAddrs == { <<>>, <<"d", ":", "8">>, <<"[", "d", "]", ":", "8">> }

\* the resolver's inputs: every X-Forwarded-For up to MaxHdrLen with some
\* values of the other headers, and every RemoteAddr up to MaxAddrLen with
\* the proxy headers missing or empty
ResolverHeaderRequests ==
    { MkRequest(GET, <<"/">>, <<>>,
                MkHeader(ProxyHeaders(xff, xri, xf)), ra) :
        xff \in Opt(Strs({"a", " ", ","}, MaxHdrLen)),
        xri \in Opt({<<>>, <<"b">>, <<" ", "b">>}),
        xf  \in Opt({<<>>, <<"c">>, <<"c", ",">>}),
        ra  \in SampleAddrs }

ResolverAddrRequests ==
    { MkRequest(GET, <<"/">>, <<>>,
                MkHeader(ProxyHeaders(xff, xri, xf)), ra) :
        xff \in Opt({<<>>}), xri \in Opt({<<>>}), xf \in Opt({<<>>}),
        ra  \in Strs({"d", ":", "[", "]"}, MaxAddrLen) }

ResolverRequests == ResolverHeaderRequests \cup ResolverAddrRequests

\* header values: n bytes of ASCII ("a" up to the limit, "b" beyond it), the
\* same with a two-byte character at bytes k and k+1, and n/2 two-byte
\* characters
Ascii(n) == [i \in 1..n |-> IF i <= MaxLabelLen THEN "a" ELSE "b"]

WithWide(n, k) ==
    [i \in 1..n |-> IF i = k THEN LeadByte ELSE IF i = k + 1 THEN ContByte
                    ELSE IF i <= MaxLabelLen THEN "a" ELSE "b"]

AllWide(n) == [i \in 1..n |-> IF i % 2 = 1 THEN LeadByte ELSE ContByte]

HeaderLens == (0..MaxSlack) \cup ((MaxLabelLen - MaxSlack)..(MaxLabelLen + MaxSlack))

HeaderValues ==
    {Ascii(n) : n \in HeaderLens}
        \cup {WithWide(n, k) : n \in {m \in HeaderLens : m > MaxLabelLen},
                               k \in (MaxLabelLen - 1)..MaxLabelLen}
        \cup {AllWide(n) : n \in {m \in HeaderLens : m % 2 = 0}}
        \cup {AllWide(2 * MaxLabelLen - 2 * MaxSlack)}

HeaderNames ==
    {importantHeaders[i] : i \in 1..Len(importantHeaders)} \cup {"X-Forwarded", "X-Custom"}

\* the header inputs: one header of any name and value beside a short Accept
HeaderRequests ==
    { MkRequest(GET, <<"/">>, <<>>,
                [n \in {"Accept", name} |-> IF n = name THEN v ELSE <<"x">>],
                <<"d", ":", "8">>) :
        name \in HeaderNames, v \in HeaderValues }

LongToken == [i \in 1..(MaxLabelLen + 1) |-> "t"]

\* the requests of the recording specification
SampleHeaders ==
    { [n \in {"User-Agent"} |-> <<"u">>],
      [n \in {"User-Agent", "Authorization"} |->
            IF n = "Authorization" THEN <<"t", "1">> ELSE <<"u">>],
      [n \in {"User-Agent", "Authorization"} |->
            IF n = "Authorization" THEN LongToken ELSE <<"u">>],
      [n \in {"X-Forwarded-For", "X-Real-IP", "X-Custom", "Accept"} |->
            IF n = "X-Forwarded-For" THEN <<" ", "9", ",", "8">>
            ELSE IF n = "X-Real-IP" THEN <<"7">>
            ELSE IF n = "X-Custom" THEN <<"z">>
            ELSE <<>>] }

\* a request with a query string and a bracketed peer address
PostRequest ==
    MkRequest(POST, <<"/", "y">>, <<"q">>, [n \in {"Origin"} |-> <<"o">>],
              <<"[", ":", ":", "1", "]", ":", "8">>)

SampleRequests ==
    { MkRequest(GET, <<"/", "x">>, <<>>, h, <<"d", ":", "8">>) : h \in SampleHeaders }
        \cup {PostRequest}

\* what the next handler does: the status it writes (0: it writes nothing)
\* and the error it returns
NextOutcomes ==
    { [status |-> 200, err |-> Nil],
      [status |-> 500, err |-> Nil],
      [status |-> 0,   err |-> "handler error"] }

\* the durations time.Since may measure, in ticks
Durations == {0, 1}

\* the next handlers of the whole-program specification
LifecycleOutcomes == {o \in NextOutcomes : o.status # 500}

\* the requests of the whole-program specification
LifecycleRequests ==
    { MkRequest(GET, <<"/", "x">>, <<>>, [n \in {"User-Agent"} |-> <<"u">>],
                <<"d", ":", "8">>),
      PostRequest }

-----------------------------------------------------------------------------
(* The operations *)

NoRegistry == "no registry"

\* the usageMetrics with the next id, as initializeMetrics constructs it
NextId == Len(sets) + 1

registerMetrics_Replace(reg, global, id) ==
    LET res == initializeMetrics(reg, id)
    IN  [ reg    |-> res.reg,
          global |-> IF res.err = Nil THEN res.metrics ELSE global,
          err    |-> res.err ]

\* registerMetrics(registry): the registry and globalUsageMetrics after the
\* call, and the error it returns
registerMetrics(reg, global, id) ==
    LET res == initializeMetrics(reg, id)
    IN  [ reg    |-> res.reg,
          global |-> IF res.err = Nil /\ global = 0 THEN res.metrics ELSE global,
          err    |-> res.err ]

\* a direct call of registerMetrics(registry); last.metrics is the usageMetrics
\* its initializeMetrics call returns (0: nil)
RegisterMetrics(R) ==
    /\ Len(sets) < MaxSets
    /\ LET res == registerMetrics(registry[R], globalUsageMetrics, NextId)
       IN  /\ registry' = [registry EXCEPT ![R] = res.reg]
           /\ globalUsageMetrics' = res.global
           /\ last' = [ op |-> "registerMetrics", registry |-> R, err |-> res.err,
                        metrics |-> initializeMetrics(registry[R], NextId).metrics,
                        held |-> {n \in MetricNameSet : registry[R][n] > 0} ]
    /\ sets' = Append(sets, NewUsageMetrics)
    /\ UNCHANGED <<loggers, req, served, calls, regs>>

Provision_PropagateError(uc, R) ==
    /\ loggers' = [loggers EXCEPT ![uc] = TRUE]
    /\ IF R # NoRegistry
       THEN /\ Len(sets) < MaxSets
            /\ LET res == registerMetrics(registry[R], globalUsageMetrics, NextId)
               IN  /\ registry' = [registry EXCEPT ![R] = res.reg]
                   /\ globalUsageMetrics' = res.global
                   /\ last' = [ op |-> "Provision", registry |-> R,
                                err |-> res.err, warned |-> res.err # Nil,
                                held |-> {n \in MetricNameSet : registry[R][n] > 0} ]
            /\ sets' = Append(sets, NewUsageMetrics)
       ELSE /\ last' = [ op |-> "Provision", registry |-> R,
                         err |-> Nil, warned |-> TRUE, held |-> {} ]
            /\ UNCHANGED <<registry, globalUsageMetrics, sets>>
    /\ UNCHANGED <<req, served, calls, regs>>

\* uc.Provision(ctx), ctx.GetMetricsRegistry() being R or nil
Provision(uc, R) ==
    /\ loggers' = [loggers EXCEPT ![uc] = TRUE]
    /\ IF R # NoRegistry
       THEN /\ Len(sets) < MaxSets
            /\ LET res == registerMetrics(registry[R], globalUsageMetrics, NextId)
               IN  /\ registry' = [registry EXCEPT ![R] = res.reg]
                   /\ globalUsageMetrics' = res.global
                   /\ last' = [ op |-> "Provision", registry |-> R,
                                err |-> Nil, warned |-> res.err # Nil,
                                held |-> {n \in MetricNameSet : registry[R][n] > 0} ]
            /\ sets' = Append(sets, NewUsageMetrics)
       ELSE /\ last' = [ op |-> "Provision", registry |-> R,
                         err |-> Nil, warned |-> TRUE, held |-> {} ]
            /\ UNCHANGED <<registry, globalUsageMetrics, sets>>
    /\ UNCHANGED <<req, served, calls, regs>>

\* uc.ServeHTTP(w, r, next): the next handler writes its response through the
\* recorder, then collectMetrics records the request
ServeHTTP(uc, r, next, duration) ==
    /\ loggers[uc]
    /\ served < MaxRequests
    /\ served' = served + 1
    /\ sets' = collectMetrics(sets, globalUsageMetrics, r, next.status, duration)
    /\ last' = [ op |-> "ServeHTTP", req |-> r, status |-> next.status,
                 duration |-> duration, nextErr |-> next.err, err |-> next.err,
                 logged |-> globalUsageMetrics = 0 ]
    /\ UNCHANGED <<registry, globalUsageMetrics, loggers, req, calls, regs>>

Cleanup_Unregister(uc) ==
    /\ last' = [op |-> "Cleanup", err |-> Nil]
    /\ registry' = [R \in Registries |->
                       [n \in MetricNameSet |->
                           IF registry[R][n] > 0 THEN NoInstrument ELSE registry[R][n]]]
    /\ globalUsageMetrics' = 0
    /\ UNCHANGED <<sets, loggers, req, served, calls, regs>>

\* uc.Cleanup()
Cleanup(uc) ==
    /\ last' = [op |-> "Cleanup", err |-> Nil]
    /\ UNCHANGED <<registry, globalUsageMetrics, sets, loggers, req, served, calls, regs>>

\* uc.Validate()
Validate(uc) ==
    /\ last' = [op |-> "Validate", err |-> Nil]
    /\ UNCHANGED <<registry, globalUsageMetrics, sets, loggers, req, served, calls, regs>>

\* a ServeHTTP call that has not started: pc is its position, next what its
\* next handler will do, rec the status on its response recorder, client the
\* status the client has received (0: none), err, duration and i its locals,
\* um the usageMetrics its first update went to, ret what it returned
NotReturned == "not returned"

IdleCall ==
    [ pc       |-> "idle",
      req      |-> NoRequest,
      next     |-> [status |-> 0, err |-> Nil],
      rec      |-> 0,
      client   |-> 0,
      err      |-> Nil,
      nextDone |-> FALSE,
      written  |-> FALSE,
      recorded |-> 0,
      logged   |-> FALSE,
      duration |-> 0,
      i        |-> 0,
      um       |-> 0,
      ret      |-> NotReturned ]

NoCalls == [g \in 1..MaxCalls |-> IdleCall]

\* a registerMetrics call taken statement by statement: its registry, the id
\* of the usageMetrics it constructs, the collector it is to register next
\* and what it returned
IdleRegistration ==
    [ pc       |-> "idle",
      registry |-> NoRegistry,
      id       |-> 0,
      i        |-> 0,
      ret      |-> NotReturned ]

NoRegs == [p \in 1..MaxRegs |-> IdleRegistration]

\* the names under which another component may register a collector
ForeignNames == {MetricNames[3]}

\* another component registers, under one of the five names, a collector
\* with a different descriptor
RegisterForeign(R, name) ==
    /\ registry[R][name] = NoInstrument
    /\ \A Q \in Registries : \A n \in MetricNameSet : registry[Q][n] # Foreign
    /\ registry' = [registry EXCEPT ![R][name] = Foreign]
    /\ last' = [op |-> "foreign", registry |-> R]
    /\ UNCHANGED <<globalUsageMetrics, sets, loggers, req, served, calls, regs>>

Init ==
    /\ registry = [R \in Registries |-> EmptyRegistry]
    /\ globalUsageMetrics = 0
    /\ sets = <<>>
    /\ loggers = [uc \in Collectors |-> FALSE]
    /\ req = NoRequest
    /\ served = 0
    /\ calls = NoCalls
    /\ regs = NoRegs
    /\ last = [op |-> "none"]

Next ==
    \/ \E R \in Registries : RegisterMetrics(R)
    \/ \E uc \in Collectors, R \in Registries \cup {NoRegistry} : Provision(uc, R)
    \/ \E uc \in Collectors, r \in LifecycleRequests, next \in LifecycleOutcomes, d \in Durations :
          ServeHTTP(uc, r, next, d)
    \/ \E uc \in Collectors : Cleanup(uc)
    \/ \E uc \in Collectors : Validate(uc)
    \/ \E R \in Registries, n \in ForeignNames : RegisterForeign(R, n)

Spec == Init /\ [][Next]_vars

-----------------------------------------------------------------------------
(* getClientIP on its own: the request is drawn from ResolverRequests *)

InitResolver ==
    /\ registry = [R \in Registries |-> EmptyRegistry]
    /\ globalUsageMetrics = 0
    /\ sets = <<>>
    /\ loggers = [uc \in Collectors |-> FALSE]
    /\ req \in ResolverRequests
    /\ served = 0
    /\ calls = NoCalls
    /\ regs = NoRegs
    /\ last = [op |-> "none"]

ResolveIP ==
    /\ last.op = "none"
    /\ last' = [op |-> "getClientIP", ret |-> getClientIP(req)]
    /\ UNCHANGED <<registry, globalUsageMetrics, sets, loggers, req, served, calls, regs>>

NextResolver == ResolveIP

SpecResolver == InitResolver /\ [][NextResolver]_vars

-----------------------------------------------------------------------------
(* collectHeaderMetrics on its own, on the usageMetrics that                *)
(* registerMetrics("R1") has made the global one; the request is drawn from *)
(* HeaderRequests                                                           *)

InitHeaders ==
    /\ registry = [R \in Registries |->
                      IF R = "R1" THEN [n \in MetricNameSet |-> 1] ELSE EmptyRegistry]
    /\ globalUsageMetrics = 1
    /\ sets = <<NewUsageMetrics>>
    /\ loggers = [uc \in Collectors |-> FALSE]
    /\ req \in HeaderRequests
    /\ served = 0
    /\ calls = NoCalls
    /\ regs = NoRegs
    /\ last = [op |-> "none"]

CollectHeaders ==
    /\ last.op = "none"
    /\ sets' = [sets EXCEPT ![globalUsageMetrics] =
                    collectHeaderMetrics(@, req, req.Method, Itoa(200))]
    /\ last' = [op |-> "collectHeaderMetrics"]
    /\ UNCHANGED <<registry, globalUsageMetrics, loggers, req, served, calls, regs>>

NextHeaders == CollectHeaders

SpecHeaders == InitHeaders /\ [][NextHeaders]_vars

-----------------------------------------------------------------------------
(* Recording on its own: ServeHTTP calls, with the requests drawn from      *)
(* SampleRequests, after uc1.Provision and uc2.Provision on "R1"            *)

InitRecord ==
    /\ registry = [R \in Registries |->
                      IF R = "R1" THEN [n \in MetricNameSet |-> 1] ELSE EmptyRegistry]
    /\ globalUsageMetrics = 1
    /\ sets = <<NewUsageMetrics, NewUsageMetrics>>
    /\ loggers = [uc \in Collectors |-> TRUE]
    /\ req = NoRequest
    /\ served = 0
    /\ calls = NoCalls
    /\ regs = NoRegs
    /\ last = [op |-> "none"]

NextRecord ==
    \E uc \in Collectors, r \in SampleRequests, next \in NextOutcomes, d \in Durations :
        ServeHTTP(uc, r, next, d)

SpecRecord == InitRecord /\ [][NextRecord]_vars

-----------------------------------------------------------------------------
(* Re-initialization: registerMetrics("R1") calls and ServeHTTP calls in    *)
(* any order, after a first registerMetrics("R1") in a fresh process        *)

InitReload ==
    /\ registry = [R \in Registries |->
                      IF R = "R1" THEN [n \in MetricNameSet |-> 1] ELSE EmptyRegistry]
    /\ globalUsageMetrics = 1
    /\ sets = <<NewUsageMetrics>>
    /\ loggers = [uc \in Collectors |-> TRUE]
    /\ req = NoRequest
    /\ served = 0
    /\ calls = NoCalls
    /\ regs = NoRegs
    /\ last = [op |-> "none"]

NextReload ==
    \/ RegisterMetrics("R1")
    \/ \E uc \in Collectors, r \in SampleRequests, next \in NextOutcomes, d \in Durations :
          ServeHTTP(uc, r, next, d)

SpecReload == InitReload /\ [][NextReload]_vars

-----------------------------------------------------------------------------
(* ServeHTTP statement by statement: up to MaxCalls calls run concurrently  *)
(* on provisioned collectors, in a process where registerMetrics("R1") has  *)
(* succeeded or where no metrics registry was available                     *)

ServeRequests == LifecycleRequests

\* the label values a call computes at lines 207-212
statusCodeOf(c) == Itoa(c.rec)
TotalLabels(c) == <<statusCodeOf(c), c.req.Method, c.req.Host, c.req.URL.Path>>
IPLabels(c) == <<getClientIP(c.req), statusCodeOf(c), c.req.Method>>
URLLabels(c) == <<URLString(c.req.URL), c.req.Method, statusCodeOf(c)>>
DurationLabels(c) == <<c.req.Method, statusCodeOf(c), c.req.Host>>
HeaderLabels(c, j) ==
    << importantHeaders[j],
       headerLabel(importantHeaders[j], HeaderGet(c.req.Header, importantHeaders[j])),
       c.req.Method, statusCodeOf(c) >>

\* the positions of importantHeaders, from the i-th on, whose header the
\* request carries with a non-empty value
HeadersLeft(c) ==
    {j \in c.i..Len(importantHeaders) :
        HeaderGet(c.req.Header, importantHeaders[j]) # <<>>}

\* lines 176-179: the call starts; calls start in the order of their numbers
Begin(g, uc, r, next) ==
    /\ loggers[uc]
    /\ calls[g].pc = "idle"
    /\ \A h \in 1..(g - 1) : calls[h].pc # "idle"
    /\ calls' = [calls EXCEPT ![g] = [@ EXCEPT !.pc = "next", !.req = r, !.next = next]]
    /\ UNCHANGED <<registry, globalUsageMetrics, sets, loggers, req, served, last, regs>>

CallNext_ReturnOnError(g) ==
    /\ calls[g].pc = "next"
    /\ calls' = [calls EXCEPT ![g] =
                    [@ EXCEPT !.pc = IF calls[g].next.err # Nil THEN "return" ELSE "write",
                              !.rec = calls[g].next.status,
                              !.client = calls[g].next.status,
                              !.err = calls[g].next.err,
                              !.nextDone = TRUE]]
    /\ UNCHANGED <<registry, globalUsageMetrics, sets, loggers, req, served, last, regs>>

\* line 182: the next handler runs; what it writes goes through the recorder,
\* which was made without a buffer, to the client
CallNext(g) ==
    /\ calls[g].pc = "next"
    /\ calls' = [calls EXCEPT ![g] =
                    [@ EXCEPT !.pc = "write",
                              !.rec = calls[g].next.status,
                              !.client = calls[g].next.status,
                              !.err = calls[g].next.err,
                              !.nextDone = TRUE]]
    /\ UNCHANGED <<registry, globalUsageMetrics, sets, loggers, req, served, last, regs>>

\* lines 185-187: rec.WriteResponse()
WriteResponse(g) ==
    /\ calls[g].pc = "write"
    /\ calls' = [calls EXCEPT ![g] = [@ EXCEPT !.pc = "collect", !.written = TRUE]]
    /\ UNCHANGED <<registry, globalUsageMetrics, sets, loggers, req, served, last, regs>>

EnterCollect_OutermostOnly(g, d) ==
    /\ calls[g].pc = "collect"
    /\ calls' = [calls EXCEPT ![g] =
                    IF globalUsageMetrics = 0
                    THEN [@ EXCEPT !.pc = "return", !.recorded = @ + 1, !.logged = TRUE]
                    ELSE IF \E h \in DOMAIN calls \ {g} : calls[h].pc = "nested"
                    THEN [@ EXCEPT !.pc = "return"]
                    ELSE [@ EXCEPT !.pc = "total", !.recorded = @ + 1, !.duration = d]]
    /\ UNCHANGED <<registry, globalUsageMetrics, sets, loggers, req, served, last, regs>>

\* lines 190 and 196-212: collectMetrics is entered; it logs and returns when
\* globalUsageMetrics is nil, and measures the duration otherwise
EnterCollect(g, d) ==
    /\ calls[g].pc = "collect"
    /\ calls' = [calls EXCEPT ![g] =
                    IF globalUsageMetrics = 0
                    THEN [@ EXCEPT !.pc = "return", !.recorded = @ + 1, !.logged = TRUE]
                    ELSE [@ EXCEPT !.pc = "total", !.recorded = @ + 1, !.duration = d]]
    /\ UNCHANGED <<registry, globalUsageMetrics, sets, loggers, req, served, last, regs>>

IncTotal_Locked(g) ==
    /\ calls[g].pc = "total"
    /\ \A h \in DOMAIN calls \ {g} :
            calls[h].pc \notin {"ip", "url", "duration", "headers"}
    /\ sets' = [sets EXCEPT ![globalUsageMetrics].requestsTotal =
                   Inc(@, TotalLabels(calls[g]))]
    /\ calls' = [calls EXCEPT ![g] =
                    [@ EXCEPT !.pc = "ip", !.um = globalUsageMetrics]]
    /\ UNCHANGED <<registry, globalUsageMetrics, loggers, req, served, last, regs>>

IncTotal_Stale(g) ==
    /\ calls[g].pc = "total"
    /\ sets' = [sets EXCEPT ![globalUsageMetrics].requestsTotal =
                   [l \in DOMAIN @ \cup {TotalLabels(calls[g])} |->
                       IF l = TotalLabels(calls[g])
                       THEN 1 + Cardinality({h \in DOMAIN calls :
                                                /\ calls[h].pc = "done"
                                                /\ TotalLabels(calls[h]) = l})
                       ELSE @[l]]]
    /\ calls' = [calls EXCEPT ![g] =
                    [@ EXCEPT !.pc = "ip", !.um = globalUsageMetrics]]
    /\ UNCHANGED <<registry, globalUsageMetrics, loggers, req, served, last, regs>>

\* line 216
IncTotal(g) ==
    /\ calls[g].pc = "total"
    /\ sets' = [sets EXCEPT ![globalUsageMetrics].requestsTotal =
                   Inc(@, TotalLabels(calls[g]))]
    /\ calls' = [calls EXCEPT ![g] =
                    [@ EXCEPT !.pc = "ip", !.um = globalUsageMetrics]]
    /\ UNCHANGED <<registry, globalUsageMetrics, loggers, req, served, last, regs>>

\* line 217
IncIP(g) ==
    /\ calls[g].pc = "ip"
    /\ sets' = [sets EXCEPT ![globalUsageMetrics].requestsByIP =
                   Inc(@, IPLabels(calls[g]))]
    /\ calls' = [calls EXCEPT ![g].pc = "url"]
    /\ UNCHANGED <<registry, globalUsageMetrics, loggers, req, served, last, regs>>

IncURL_OncePerURL(g) ==
    /\ calls[g].pc = "url"
    /\ sets' = [sets EXCEPT ![globalUsageMetrics].requestsByURL =
                   IF \E l \in DOMAIN @ : l[1] = URLLabels(calls[g])[1]
                   THEN @
                   ELSE Inc(@, URLLabels(calls[g]))]
    /\ calls' = [calls EXCEPT ![g].pc = "duration"]
    /\ UNCHANGED <<registry, globalUsageMetrics, loggers, req, served, last, regs>>

\* line 218
IncURL(g) ==
    /\ calls[g].pc = "url"
    /\ sets' = [sets EXCEPT ![globalUsageMetrics].requestsByURL =
                   Inc(@, URLLabels(calls[g]))]
    /\ calls' = [calls EXCEPT ![g].pc = "duration"]
    /\ UNCHANGED <<registry, globalUsageMetrics, loggers, req, served, last, regs>>

\* lines 219 and 222: the observation, then collectHeaderMetrics is entered
ObserveDuration(g) ==
    /\ calls[g].pc = "duration"
    /\ sets' = [sets EXCEPT ![globalUsageMetrics].requestDuration =
                   Observe(@, DurationLabels(calls[g]), calls[g].duration)]
    /\ calls' = [calls EXCEPT ![g] = [@ EXCEPT !.pc = "headers", !.i = 1, !.duration = 0]]
    /\ UNCHANGED <<registry, globalUsageMetrics, loggers, req, served, last, regs>>

\* lines 241-256: the loop runs on to the next header with a non-empty value
\* and increments its series, or ends
IncHeader(g) ==
    /\ calls[g].pc = "headers"
    /\ IF HeadersLeft(calls[g]) = {}
       THEN /\ calls' = [calls EXCEPT ![g] = [@ EXCEPT !.pc = "return", !.i = 0]]
            /\ UNCHANGED sets
       ELSE LET j == CHOOSE x \in HeadersLeft(calls[g]) :
                        \A y \in HeadersLeft(calls[g]) : x <= y
            IN  /\ sets' = [sets EXCEPT ![globalUsageMetrics].requestsByHeaders =
                               Inc(@, HeaderLabels(calls[g], j))]
                /\ calls' = [calls EXCEPT ![g].i = j + 1]
    /\ UNCHANGED <<registry, globalUsageMetrics, loggers, req, served, last, regs>>

Return_MetricsError(g) ==
    /\ calls[g].pc = "return"
    /\ calls' = [calls EXCEPT ![g] =
                    [@ EXCEPT !.pc = "done",
                              !.ret = IF calls[g].logged THEN "usage metrics not initialized"
                                      ELSE calls[g].err]]
    /\ UNCHANGED <<registry, globalUsageMetrics, sets, loggers, req, served, last, regs>>

\* line 192: return err
Return(g) ==
    /\ calls[g].pc = "return"
    /\ calls' = [calls EXCEPT ![g] = [@ EXCEPT !.pc = "done", !.ret = calls[g].err]]
    /\ UNCHANGED <<registry, globalUsageMetrics, sets, loggers, req, served, last, regs>>

InitServe ==
    /\ registry \in { [R \in Registries |-> EmptyRegistry],
                      [R \in Registries |->
                          IF R = "R1" THEN [n \in MetricNameSet |-> 1] ELSE EmptyRegistry] }
    /\ globalUsageMetrics = registry["R1"]["requests_total"]
    /\ sets = IF globalUsageMetrics = 0 THEN <<>> ELSE <<NewUsageMetrics>>
    /\ loggers = [uc \in Collectors |-> TRUE]
    /\ req = NoRequest
    /\ served = 0
    /\ calls = NoCalls
    /\ regs = NoRegs
    /\ last = [op |-> "none"]

NextServe ==
    \/ \E g \in DOMAIN calls, uc \in Collectors, r \in ServeRequests, next \in LifecycleOutcomes :
          Begin(g, uc, r, next)
    \/ \E g \in DOMAIN calls : CallNext(g)
    \/ \E g \in DOMAIN calls : WriteResponse(g)
    \/ \E g \in DOMAIN calls, d \in Durations : EnterCollect(g, d)
    \/ \E g \in DOMAIN calls : IncTotal(g)
    \/ \E g \in DOMAIN calls : IncIP(g)
    \/ \E g \in DOMAIN calls : IncURL(g)
    \/ \E g \in DOMAIN calls : ObserveDuration(g)
    \/ \E g \in DOMAIN calls : IncHeader(g)
    \/ \E g \in DOMAIN calls : Return(g)

SpecServe == InitServe /\ [][NextServe]_vars

-----------------------------------------------------------------------------
(* The claims about getClientIP, under SpecResolver *)

\* the request's proxy headers as Header.Get returns them
XFF == HeaderGet(req.Header, "X-Forwarded-For")
XRI == HeaderGet(req.Header, "X-Real-IP")
XF  == HeaderGet(req.Header, "X-Forwarded")

Resolved == last.op = "getClientIP"
NoProxyHeader == XFF = <<>> /\ XRI = <<>> /\ XF = <<>>

Occurs(s, c) == \E i \in 1..Len(s) : s[i] = c

\* the part of s before the first c, s itself when c does not occur
Before(s, c) ==
    IF Occurs(s, c)
    THEN SubSeq(s, 1, (CHOOSE i \in 1..Len(s) : s[i] = c /\ ~Occurs(SubSeq(s, 1, i - 1), c)) - 1)
    ELSE s

Blank(s) == \A i \in 1..Len(s) : IsSpace(s[i])

\* s without its leading and trailing whitespace
Stripped(s) ==
    IF Blank(s)
    THEN <<>>
    ELSE LET solid == {i \in 1..Len(s) : ~IsSpace(s[i])}
             lo == CHOOSE i \in solid : \A j \in solid : i <= j
             hi == CHOOSE i \in solid : \A j \in solid : i >= j
         IN  SubSeq(s, lo, hi)

\* C1: with a non-empty X-Forwarded-For, getClientIP returns its first
\* comma-separated element without the surrounding whitespace, whatever
\* X-Real-IP, X-Forwarded and RemoteAddr are, valid IP address or not
C1_ForwardedForFirst ==
    (Resolved /\ XFF # <<>>) => last.ret = Stripped(Before(XFF, ","))

C1_Witness ==
    /\ Resolved
    /\ XFF = <<" ", "a", ",">>
    /\ XRI # <<>> /\ XF # <<>> /\ req.RemoteAddr # <<>>
    /\ last.ret = <<"a">>

\* C2: without a non-empty X-Forwarded-For, a non-empty X-Real-IP is returned
\* as it is, also when X-Forwarded is set; without that, a non-empty
\* X-Forwarded is returned as it is; RemoteAddr plays no part while one of
\* the three headers is non-empty
C2_RealIPThenForwarded ==
    (Resolved /\ XFF = <<>>) =>
        /\ XRI # <<>> => last.ret = XRI
        /\ (XRI = <<>> /\ XF # <<>>) => last.ret = XF
        /\ ~NoProxyHeader =>
              \A ra \in SampleAddrs : getClientIP([req EXCEPT !.RemoteAddr = ra]) = last.ret

C2_Witness ==
    /\ Resolved
    /\ "X-Forwarded-For" \in DOMAIN req.Header /\ XFF = <<>>
    /\ XRI = <<" ", "b">> /\ XF = <<"c", ",">>
    /\ last.ret = <<" ", "b">>

\* the request without its X-Forwarded-For header
WithoutXFF(r) ==
    [r EXCEPT !.Header = [n \in DOMAIN r.Header \ {"X-Forwarded-For"} |-> r.Header[n]]]

\* C3: a request whose X-Forwarded-For header is there with the empty value
\* resolves as the same request without the header
C3_EmptyForwardedForFallsThrough ==
    (Resolved /\ "X-Forwarded-For" \in DOMAIN req.Header /\ req.Header["X-Forwarded-For"] = <<>>)
        => last.ret = getClientIP(WithoutXFF(req))

C3_Witness ==
    /\ Resolved
    /\ "X-Forwarded-For" \in DOMAIN req.Header /\ req.Header["X-Forwarded-For"] = <<>>
    /\ XRI = <<>> /\ XF = <<>>
    /\ req.RemoteAddr = <<"d", ":", "8">>
    /\ last.ret = <<"d">>

\* C4: without a non-empty proxy header and with a RemoteAddr that does not
\* start with "[", getClientIP returns what stands before the first colon of
\* RemoteAddr, and RemoteAddr itself when it holds no colon
C4_PeerBeforeFirstColon ==
    (Resolved /\ NoProxyHeader /\ ~HasPrefix(req.RemoteAddr, "[")) =>
        /\ last.ret = Before(req.RemoteAddr, ":")
        /\ ~Occurs(req.RemoteAddr, ":") => last.ret = req.RemoteAddr

C4_Witness ==
    /\ Resolved /\ NoProxyHeader
    /\ req.RemoteAddr = <<"d", "d", ":", "d", ":", "d">>
    /\ last.ret = <<"d", "d">>

\* RemoteAddr has the form "[addr]:port"
BracketedPeer(ra) ==
    /\ HasPrefix(ra, "[")
    /\ Occurs(ra, "]")
    /\ LET close == Len(Before(ra, "]")) + 1
       IN  close < Len(ra) /\ ra[close + 1] = ":"

\* C5: without a non-empty proxy header and with a RemoteAddr "[addr]:port",
\* getClientIP returns RemoteAddr up to and including the first "]", however
\* many colons addr holds
C5_BracketedPeer ==
    (Resolved /\ NoProxyHeader /\ BracketedPeer(req.RemoteAddr)) =>
        last.ret = Before(req.RemoteAddr, "]") \o <<"]">>

C5_Witness ==
    /\ Resolved /\ NoProxyHeader
    /\ req.RemoteAddr = <<"[", ":", ":", "]", ":", "d">>
    /\ last.ret = <<"[", ":", ":", "]">>

\* C6 as stated: for every non-empty RemoteAddr getClientIP returns a
\* non-empty string
C6_AlwaysNonEmpty ==
    (Resolved /\ req.RemoteAddr # <<>>) => last.ret # <<>>

\* C6, amended: getClientIP returns a string for every request; with a
\* non-empty RemoteAddr the string is empty exactly when the first element of
\* a non-empty X-Forwarded-For is blank or when, no proxy header being
\* non-empty, RemoteAddr starts with a colon; and it is RemoteAddr itself when
\* no proxy header is non-empty and RemoteAddr holds neither a colon nor a
\* leading "[" with a "]"
C6_ReturnsAString ==
    Resolved =>
        /\ last.ret \in Seq({"a", "b", "c", "d", " ", ",", ":", "[", "]", "8"})
        /\ req.RemoteAddr # <<>> =>
              (last.ret = <<>> <=>
                  \/ XFF # <<>> /\ Blank(Before(XFF, ","))
                  \/ NoProxyHeader /\ HasPrefix(req.RemoteAddr, ":"))
        /\ ( /\ NoProxyHeader
             /\ ~Occurs(req.RemoteAddr, ":")
             /\ ~(HasPrefix(req.RemoteAddr, "[") /\ Occurs(req.RemoteAddr, "]")) )
              => last.ret = req.RemoteAddr

C6_Witness ==
    /\ Resolved
    /\ XFF = <<" ", ",", "a">>
    /\ req.RemoteAddr # <<>>
    /\ last.ret = <<>>

-----------------------------------------------------------------------------
(* The claims about the header labels *)

\* the value of a counter series, 0 when the series does not exist
Count(vec, lvs) == IF lvs \in DOMAIN vec THEN vec[lvs] ELSE 0

\* the ten header names of the allow-list
TrackedHeaders ==
    { "User-Agent", "Referer", "Accept", "Accept-Language", "Accept-Encoding",
      "Content-Type", "Authorization", "X-Forwarded-For", "X-Real-IP", "Origin" }

\* all series of requests_by_headers_total, over the usageMetrics constructed
HeaderSeries == UNION {DOMAIN sets[k].requestsByHeaders : k \in 1..Len(sets)}

\* r1 and r2 are the same request but for the values of their non-empty
\* Authorization headers
SameButCredential(r1, r2) ==
    /\ DOMAIN r1.Header = DOMAIN r2.Header
    /\ "Authorization" \in DOMAIN r1.Header
    /\ r1.Header["Authorization"] # <<>> /\ r2.Header["Authorization"] # <<>>
    /\ r1.Header["Authorization"] # r2.Header["Authorization"]
    /\ \A n \in DOMAIN r1.Header \ {"Authorization"} : r1.Header[n] = r2.Header[n]
    /\ [r1 EXCEPT !.Header = <<>>] = [r2 EXCEPT !.Header = <<>>]

CharLen(s) == Cardinality({i \in 1..Len(s) : s[i] # ContByte})

\* the first n characters of a string
FirstChars(s, n) ==
    LET ends == {k \in 0..Len(s) :
                    /\ CharLen(SubSeq(s, 1, k)) <= n
                    /\ (k < Len(s) => s[k + 1] # ContByte)}
    IN  SubSeq(s, 1, CHOOSE k \in ends : \A j \in ends : j <= k)

HeadersCollected == last.op = "collectHeaderMetrics"

\* C8 as stated: a tracked header other than Authorization with a value of
\* more than 100 characters is recorded as the first 100 characters and "...",
\* one of at most 100 characters as it is, and no header_value label is
\* longer than 103
C8_HundredCharacters ==
    HeadersCollected =>
        /\ \A n \in (TrackedHeaders \ {"Authorization"}) \cap DOMAIN req.Header :
              req.Header[n] # <<>> =>
                  Count(sets[globalUsageMetrics].requestsByHeaders,
                        << n,
                           IF CharLen(req.Header[n]) > 100
                           THEN FirstChars(req.Header[n], 100) \o <<".", ".", ".">>
                           ELSE req.Header[n],
                           req.Method, Itoa(200) >>) = 1
        /\ \A l \in HeaderSeries : CharLen(l[2]) <= 103

\* the headers of the request a ServeHTTP step handles, as the step's new
\* state records it
Handled(n) == HeaderGet(last'.req.Header, n)

\* C9: a recorded request increments, by 1, exactly one series of
\* requests_by_headers_total for each allow-listed header with a non-empty
\* value, and creates or increments none for an allow-listed header that is
\* missing or empty or for a header outside the allow-list; so every series
\* carries an allow-listed header_name
C9_OnlyAllowListedHeaders ==
    [][ (served' = served + 1 /\ globalUsageMetrics # 0) =>
            LET old == sets[globalUsageMetrics].requestsByHeaders
                new == sets'[globalUsageMetrics].requestsByHeaders
                names == TrackedHeaders \cup DOMAIN last'.req.Header
                             \cup {l[1] : l \in DOMAIN new}
            IN  /\ DOMAIN old \subseteq DOMAIN new
                /\ \A l \in DOMAIN new : Count(new, l) - Count(old, l) \in {0, 1}
                /\ \A n \in names :
                      Cardinality({l \in DOMAIN new :
                                      l[1] = n /\ Count(new, l) = Count(old, l) + 1})
                          = IF n \in TrackedHeaders /\ Handled(n) # <<>> THEN 1 ELSE 0
                /\ \A l \in DOMAIN new : l[1] \in TrackedHeaders
      ]_vars

C9_Witness ==
    /\ last.op = "ServeHTTP"
    /\ globalUsageMetrics # 0
    /\ {"X-Custom", "Accept"} \subseteq DOMAIN last.req.Header
    /\ last.req.Header["X-Custom"] # <<>>
    /\ last.req.Header["Accept"] = <<>>
    /\ {l[1] : l \in DOMAIN sets[globalUsageMetrics].requestsByHeaders}
          = {"X-Forwarded-For", "X-Real-IP"}

-----------------------------------------------------------------------------
(* What a registry exposes *)

\* the instrument of a usageMetrics that is registered under a name
Instrument(um, name) ==
    CASE name = MetricNames[1] -> um.requestsTotal
      [] name = MetricNames[2] -> um.requestsByIP
      [] name = MetricNames[3] -> um.requestsByURL
      [] name = MetricNames[4] -> um.requestsByHeaders
      [] name = MetricNames[5] -> um.requestDuration

\* the series that gathering registry R shows under a name: those of the
\* instrument registered there, none when the name holds no instrument of
\* this component
Exposed(R, name) ==
    IF registry[R][name] > 0 THEN Instrument(sets[registry[R][name]], name) ELSE <<>>

\* the observation counts of the series of a histogram
ObservationCounts(vec) == [l \in DOMAIN vec |-> vec[l].count]

\* the sum of the values of a set of series of a counter
RECURSIVE SumOver(_, _)
SumOver(vec, ls) ==
    IF ls = {} THEN 0
    ELSE LET l == CHOOSE x \in ls : TRUE
         IN  vec[l] + SumOver(vec, ls \ {l})

\* the sum of a counter over all its series
Total(vec) == SumOver(vec, DOMAIN vec)

-----------------------------------------------------------------------------
(* The claims about registration *)

\* C10: registering against a registry that already holds the five
\* instruments is not an error: every such registerMetrics call, direct or
\* from the Provision of any collector, returns nil
C10_ReRegistrationReturnsNil ==
    /\ (last.op = "registerMetrics" /\ last.held = MetricNameSet) => last.err = Nil
    /\ (last.op = "Provision" /\ last.held = MetricNameSet) => ~last.warned

C10_Witness ==
    /\ last.op = "registerMetrics"
    /\ last.registry = "R1"
    /\ last.held = MetricNameSet
    /\ last.err = Nil
    /\ Len(sets) = 3
    /\ registry["R2"] = EmptyRegistry
    /\ loggers["uc1"] /\ loggers["uc2"]

\* C11: after registerMetrics("R1"), k recorded requests, registerMetrics("R1")
\* again and m recorded requests, in any such order, the requests_total that
\* registry "R1" exposes sums to k+m, as does the observation count of the
\* duration histogram it exposes: a later initialization neither resets the
\* counters nor moves the recording to instruments "R1" does not expose
C11_CounterContinuity ==
    /\ Total(Exposed("R1", "requests_total")) = served
    /\ Total(ObservationCounts(Exposed("R1", "request_duration_seconds"))) = served

C11_Witness ==
    /\ last.op = "ServeHTTP"
    /\ Len(sets) = 3
    /\ served = 2
    /\ Cardinality(DOMAIN Exposed("R1", "requests_total")) = 2
    /\ Total(Exposed("R1", "requests_total")) = 2

\* C12 as stated: the usageMetrics that initializeMetrics returns holds, for
\* every name, the instrument the registry holds under that name: where the
\* registration met an instrument already registered, that instrument takes
\* the place of the newly constructed one
C12_AdoptsRegistered ==
    (last.op = "registerMetrics" /\ last.metrics # 0) =>
        \A n \in MetricNameSet : registry[last.registry][n] = last.metrics

\* C13: a registerMetrics call on a registry where one of the five names is
\* taken by another component's collector fails with the registry's error:
\* its initializeMetrics returns (nil, err), registerMetrics returns that err,
\* and globalUsageMetrics is what it was before the call; the same holds of
\* globalUsageMetrics when the call is made by Provision
C13_OtherErrorIsFatal ==
    [][ ( /\ Len(sets') = Len(sets) + 1
          /\ \E n \in MetricNameSet : registry[last'.registry][n] = Foreign )
        => /\ globalUsageMetrics' = globalUsageMetrics
           /\ last'.op = "registerMetrics" =>
                 (last'.err = OtherError /\ last'.metrics = 0)
           /\ last'.op = "Provision" => last'.warned
      ]_vars

C13_Witness ==
    /\ last.op = "registerMetrics"
    /\ last.registry = "R1"
    /\ last.err = OtherError
    /\ last.metrics = 0
    /\ last.held = {}
    /\ registry["R1"]["requests_total"] = 2
    /\ registry["R1"]["requests_by_url_total"] = Foreign
    /\ globalUsageMetrics = 1

-----------------------------------------------------------------------------
(* The claims about recording *)

\* C14: a ServeHTTP call made while globalUsageMetrics is nil logs the error
\* and returns, and no series of any instrument of any usageMetrics is
\* created, incremented or observed
C14_NilSetRecordsNothing ==
    [][ (served' = served + 1 /\ globalUsageMetrics = 0) =>
            /\ sets' = sets
            /\ last'.op = "ServeHTTP"
            /\ last'.logged
      ]_vars

C14_Witness ==
    /\ last.op = "ServeHTTP"
    /\ last.logged
    /\ globalUsageMetrics = 0
    /\ served = 2
    /\ Len(sets) = 2
    /\ \A k \in 1..Len(sets) : sets[k] = NewUsageMetrics

\* the counter new is the counter old with the series l one higher (created
\* at 1 when it was not there) and nothing else changed
OnlyPlusOne(old, new, l) ==
    /\ DOMAIN new = DOMAIN old \cup {l}
    /\ \A x \in DOMAIN new : new[x] = Count(old, x) + (IF x = l THEN 1 ELSE 0)

\* the histogram new is the histogram old with one more observation, of the
\* value v, in the series l and nothing else changed
OnlyOneObservation(old, new, l, v) ==
    /\ DOMAIN new = DOMAIN old \cup {l}
    /\ \A x \in DOMAIN new \ {l} : new[x] = old[x]
    /\ new[l].count = (IF l \in DOMAIN old THEN old[l].count ELSE 0) + 1
    /\ new[l].sum = (IF l \in DOMAIN old THEN old[l].sum ELSE 0) + v

\* C15: with the metric set initialized, a recorded request raises by exactly
\* 1 the series requests_total{status_code, method, host, path},
\* requests_by_ip_total{getClientIP(request), status_code, method} and
\* requests_by_url_total{path and "?query", method, status_code}, adds exactly
\* one observation to request_duration_seconds{method, status_code, host} and
\* changes no other series of the four; so on a fresh set requests_total sums
\* to the number of requests recorded
C15_OneIncrementPerInstrument ==
    [][ (served' = served + 1 /\ globalUsageMetrics # 0) =>
            LET old == sets[globalUsageMetrics]
                new == sets'[globalUsageMetrics]
                r   == last'.req
                sc  == Itoa(last'.status)
                url == r.URL.Path \o (IF r.URL.RawQuery # <<>>
                                      THEN <<"?">> \o r.URL.RawQuery ELSE <<>>)
            IN  /\ OnlyPlusOne(old.requestsTotal, new.requestsTotal,
                               <<sc, r.Method, r.Host, r.URL.Path>>)
                /\ OnlyPlusOne(old.requestsByIP, new.requestsByIP,
                               <<getClientIP(r), sc, r.Method>>)
                /\ OnlyPlusOne(old.requestsByURL, new.requestsByURL,
                               <<url, r.Method, sc>>)
                /\ OnlyOneObservation(old.requestDuration, new.requestDuration,
                                      <<r.Method, sc, r.Host>>, last'.duration)
                /\ Total(new.requestsTotal) = served'
      ]_vars

C15_Witness ==
    /\ last.op = "ServeHTTP"
    /\ last.req = PostRequest
    /\ last.status = 500
    /\ served = 2
    /\ Count(sets[globalUsageMetrics].requestsByURL,
             <<(<<"/", "y", "?", "q">>), POST, Itoa(500)>>) = 2
    /\ Count(sets[globalUsageMetrics].requestsByIP,
             <<(<<"[", ":", ":", "1", "]">>), Itoa(500), POST>>) = 2
    /\ sets[globalUsageMetrics].requestDuration[<<POST, Itoa(500), Host1>>]
          = [count |-> 2, sum |-> 1]
    /\ Total(sets[globalUsageMetrics].requestsTotal) = 2

-----------------------------------------------------------------------------
(* The claims about ServeHTTP calls that run concurrently, under SpecServe *)

\* the calls that have returned
Done == {g \in DOMAIN calls : calls[g].pc = "done"}

\* no call is under way
Quiescent == \A g \in DOMAIN calls : calls[g].pc \in {"idle", "done"}

\* the allow-listed headers a call's request carries with a non-empty value
Carried(c) ==
    {j \in 1..Len(importantHeaders) : HeaderGet(c.req.Header, importantHeaders[j]) # <<>>}

\* C16: when N concurrent calls on an initialized metric set have returned,
\* however their steps interleaved, every counter series holds exactly the
\* number of calls that targeted it and the histogram series as many
\* observations: N for calls with identical label values
C16_NoLostUpdates ==
    (Quiescent /\ globalUsageMetrics # 0) =>
        LET um == sets[globalUsageMetrics]
            Same(L(_), g) == Cardinality({h \in Done : L(calls[h]) = L(calls[g])})
        IN  \A g \in Done :
                /\ Count(um.requestsTotal, TotalLabels(calls[g])) = Same(TotalLabels, g)
                /\ Count(um.requestsByIP, IPLabels(calls[g])) = Same(IPLabels, g)
                /\ Count(um.requestsByURL, URLLabels(calls[g])) = Same(URLLabels, g)
                /\ um.requestDuration[DurationLabels(calls[g])].count
                      = Same(DurationLabels, g)
                /\ \A j \in Carried(calls[g]) :
                      Count(um.requestsByHeaders, HeaderLabels(calls[g], j))
                          = Cardinality({h \in Done :
                                /\ j \in Carried(calls[h])
                                /\ HeaderLabels(calls[h], j) = HeaderLabels(calls[g], j)})
                /\ (\A h \in Done : calls[h].req = calls[g].req
                                        /\ calls[h].next = calls[g].next)
                      => Count(um.requestsTotal, TotalLabels(calls[g])) = Cardinality(Done)

C16_Witness ==
    /\ globalUsageMetrics # 0
    /\ Done = {1, 2}
    /\ calls[1].req = calls[2].req
    /\ calls[1].next = calls[2].next
    /\ Carried(calls[1]) # {}
    /\ Count(sets[globalUsageMetrics].requestsTotal, TotalLabels(calls[1])) = 2
    /\ sets[globalUsageMetrics].requestDuration[DurationLabels(calls[1])].count = 2
    /\ \A j \in Carried(calls[1]) :
          Count(sets[globalUsageMetrics].requestsByHeaders, HeaderLabels(calls[1], j)) = 2

-----------------------------------------------------------------------------
(* The claims about what the registries expose *)

\* C17 as stated: once registerMetrics(R) has returned nil, a request that
\* collectMetrics records shows in what R exposes, in each of the five
\* instruments, whatever registerMetrics calls came before, also successful
\* ones on another registry
C17_ObservableThroughRegistry ==
    [][ \A R \in Registries :
            ( /\ last.op = "registerMetrics" /\ last.err = Nil /\ last.registry = R
              /\ served' = served + 1
              /\ globalUsageMetrics # 0 )
            => /\ \A n \in MetricNameSet \ {"request_duration_seconds"} :
                     Total(Exposed(R, n))' > Total(Exposed(R, n))
               /\ Total(ObservationCounts(Exposed(R, "request_duration_seconds")))'
                     = Total(ObservationCounts(Exposed(R, "request_duration_seconds"))) + 1
      ]_vars

\* every series of the instrument old, registered as n, is a series of new,
\* with a value and, for the histogram, a count and a sum that are not lower
NotLower(n, old, new) ==
    /\ DOMAIN old \subseteq DOMAIN new
    /\ \A l \in DOMAIN old :
          IF n # "request_duration_seconds"
          THEN new[l] >= old[l]
          ELSE new[l].count >= old[l].count /\ new[l].sum >= old[l].sum

\* C18: no step of the component lowers or removes a series of a counter or
\* of the histogram of any usageMetrics; no step takes an instrument out of
\* a registry or puts another in its place, so that what a registry exposes
\* is never lowered either; and Cleanup leaves the registries and
\* globalUsageMetrics as they are
C18_OnlyForward ==
    [][ /\ Len(sets') >= Len(sets)
        /\ \A k \in 1..Len(sets) :
               \/ sets'[k] = sets[k]
               \/ \A n \in MetricNameSet :
                      NotLower(n, Instrument(sets[k], n), Instrument(sets'[k], n))
        /\ \A R \in Registries : \A n \in MetricNameSet :
               registry[R][n] # NoInstrument => registry'[R][n] = registry[R][n]
        /\ last'.op = "Cleanup" =>
               (registry' = registry /\ globalUsageMetrics' = globalUsageMetrics)
      ]_vars

C18_Witness ==
    /\ last.op = "Cleanup"
    /\ served = 2
    /\ globalUsageMetrics = 1
    /\ Total(Exposed("R1", "requests_total")) = 2
    /\ Len(sets) = 3

-----------------------------------------------------------------------------
(* The claims about the response path, under SpecServe *)

C20_RecordedOnceAfterResponse ==
    /\ \A g \in DOMAIN calls :
          /\ calls[g].recorded <= 1
          /\ calls[g].recorded = 1 => (calls[g].nextDone /\ calls[g].written)
          /\ calls[g].pc = "done" => calls[g].recorded = 1
          /\ (calls[g].pc = "done" /\ globalUsageMetrics # 0) =>
                Count(sets[globalUsageMetrics].requestsTotal,
                      << Itoa(calls[g].next.status), calls[g].req.Method,
                         calls[g].req.Host, calls[g].req.URL.Path >>) >= 1
    /\ globalUsageMetrics # 0 =>
          /\ Total(sets[globalUsageMetrics].requestsTotal)
                <= Cardinality({g \in DOMAIN calls : calls[g].recorded = 1})
          /\ \A l \in DOMAIN sets[globalUsageMetrics].requestsTotal :
                \E g \in DOMAIN calls :
                    calls[g].recorded = 1 /\ l[1] = Itoa(calls[g].rec)

C20_Witness ==
    /\ globalUsageMetrics # 0
    /\ Done = {1}
    /\ calls[1].next = [status |-> 0, err |-> "handler error"]
    /\ calls[1].recorded = 1
    /\ calls[2].pc = "write"
    /\ Total(sets[globalUsageMetrics].requestsTotal) = 1
    /\ Count(sets[globalUsageMetrics].requestsTotal,
             <<Itoa(0), calls[1].req.Method, calls[1].req.Host, calls[1].req.URL.Path>>) = 1

-----------------------------------------------------------------------------
(* The claims about Provision and the package variable *)

-----------------------------------------------------------------------------
(* Termination of the recorder: the statements of ServeHTTP after the next  *)
(* handler has returned, run by a goroutine that the scheduler does not     *)
(* starve                                                                   *)

\* the statements of call g from line 185 on
AfterNext(g) ==
    \/ WriteResponse(g)
    \/ \E d \in Durations : EnterCollect(g, d)
    \/ IncTotal(g)
    \/ IncIP(g)
    \/ IncURL(g)
    \/ ObserveDuration(g)
    \/ IncHeader(g)
    \/ Return(g)

\* the request of the termination specification: two headers of the
\* allow-list, the first and the seventh
TerminationRequests ==
    {r \in SampleRequests : /\ "Authorization" \in DOMAIN r.Header
                            /\ Len(r.Header["Authorization"]) < MaxLabelLen}

NextTermination ==
    \/ \E g \in DOMAIN calls, uc \in Collectors, r \in TerminationRequests,
          next \in LifecycleOutcomes :
          Begin(g, uc, r, next)
    \/ \E g \in DOMAIN calls : CallNext(g)
    \/ \E g \in DOMAIN calls : WriteResponse(g)
    \/ \E g \in DOMAIN calls, d \in Durations : EnterCollect(g, d)
    \/ \E g \in DOMAIN calls : IncTotal(g)
    \/ \E g \in DOMAIN calls : IncIP(g)
    \/ \E g \in DOMAIN calls : IncURL(g)
    \/ \E g \in DOMAIN calls : ObserveDuration(g)
    \/ \E g \in DOMAIN calls : IncHeader(g)
    \/ \E g \in DOMAIN calls : Return(g)

\* no fairness for Begin and CallNext: a request need not come and the next
\* handler need not return
SpecTermination ==
    InitServe /\ [][NextTermination]_vars /\ \A g \in 1..MaxCalls : WF_vars(AfterNext(g))

\* the statements a call has still to run, at most: WriteResponse, the entry
\* of collectMetrics, four updates, ten header names, the end of the loop
\* and the return
StepsLeft(c) ==
    CASE c.pc = "write"    -> 18
      [] c.pc = "collect"  -> 17
      [] c.pc = "total"    -> 16
      [] c.pc = "ip"       -> 15
      [] c.pc = "url"      -> 14
      [] c.pc = "duration" -> 13
      [] c.pc = "headers"  -> 13 - c.i
      [] c.pc = "return"   -> 1
      [] c.pc = "done"     -> 0
      [] OTHER             -> 19

\* C23: once its next handler has returned, a ServeHTTP call can always take
\* its next statement whatever the other calls are doing, each statement
\* brings it closer to its return by a measure that starts at 18 (four
\* updates and ten header names among them), and it does return: again and
\* again every call whose next handler has returned has returned itself
C23_RecorderNeverBlocks ==
    /\ [](\A g \in 1..MaxCalls :
            (calls[g].nextDone /\ calls[g].pc # "done") => ENABLED <<AfterNext(g)>>_vars)
    /\ [][\A g \in 1..MaxCalls :
            (calls[g].nextDone /\ calls'[g] # calls[g]) =>
                /\ StepsLeft(calls'[g]) < StepsLeft(calls[g])
                /\ StepsLeft(calls'[g]) >= 0]_vars
    /\ []<>(\A g \in 1..MaxCalls : calls[g].nextDone => calls[g].pc = "done")

C23_Witness ==
    /\ calls[1].pc = "done"
    /\ calls[1].recorded = 1
    /\ ~calls[1].logged
    /\ calls[2].pc = "headers"
    /\ calls[2].i > 1
    /\ Len(sets) > 0
    /\ \E lvs \in DOMAIN sets[1].requestsByHeaders : sets[1].requestsByHeaders[lvs] = 2

-----------------------------------------------------------------------------
(* The peer addresses the bracket rule does not take *)

\* a RemoteAddr that starts with "[" and holds no "]"
UnclosedBracket(ra) == HasPrefix(ra, "[") /\ ~Occurs(ra, "]")

\* C30 as stated: without a non-empty proxy header, a RemoteAddr that starts
\* with "[" and holds no "]" is never returned unchanged: the result is the
\* part before its first colon; and so is it for a RemoteAddr that does not
\* start with "["
C30_NeverUnchanged ==
    (Resolved /\ NoProxyHeader) =>
        /\ UnclosedBracket(req.RemoteAddr) =>
              /\ last.ret # req.RemoteAddr
              /\ last.ret = Before(req.RemoteAddr, ":")
        /\ ~HasPrefix(req.RemoteAddr, "[") =>
              last.ret = Before(req.RemoteAddr, ":")

\* C30, amended: without a non-empty proxy header, a RemoteAddr that starts
\* with "[" and holds no "]", like one that does not start with "[", goes to
\* the colon rule: the result is the part before its first colon, which is
\* RemoteAddr unchanged exactly when it holds no colon
C30_ColonRule ==
    (Resolved /\ NoProxyHeader
        /\ (UnclosedBracket(req.RemoteAddr) \/ ~HasPrefix(req.RemoteAddr, "["))) =>
        /\ last.ret = Before(req.RemoteAddr, ":")
        /\ last.ret = req.RemoteAddr <=> ~Occurs(req.RemoteAddr, ":")

C30_Witness ==
    /\ Resolved /\ NoProxyHeader
    /\ req.RemoteAddr = <<"[", ":", ":", "d">>
    /\ last.ret = <<"[">>

-----------------------------------------------------------------------------
(* The labels of the instruments *)

\* the label names each instrument is constructed with, in their order
LabelNames ==
    [ n \in MetricNameSet |->
        CASE n = MetricNames[1] -> <<"status_code", "method", "host", "path">>
          [] n = MetricNames[2] -> <<"client_ip", "status_code", "method">>
          [] n = MetricNames[3] -> <<"full_url", "method", "status_code">>
          [] n = MetricNames[4] -> <<"header_name", "header_value", "method", "status_code">>
          [] n = MetricNames[5] -> <<"method", "status_code", "host">> ]

\* the values a label can take over the requests and next handlers of the
\* recording specification
LabelValues(label) ==
    CASE label = "status_code"  -> {Itoa(o.status) : o \in NextOutcomes}
      [] label = "method"       -> {r.Method : r \in SampleRequests}
      [] label = "host"         -> {r.Host : r \in SampleRequests}
      [] label = "path"         -> {r.URL.Path : r \in SampleRequests}
      [] label = "full_url"     -> {URLString(r.URL) : r \in SampleRequests}
      [] label = "client_ip"    -> {getClientIP(r) : r \in SampleRequests}
      [] label = "header_name"  -> TrackedHeaders
      [] label = "header_value" ->
            UNION { {headerLabel(n, r.Header[n]) :
                        r \in {x \in SampleRequests : n \in DOMAIN x.Header}} :
                    n \in TrackedHeaders }

\* C22: every series of every instrument carries as many label values as the
\* instrument declares label names, each at the position of its name:
\* (status_code, method, host, path), (client_ip, status_code, method),
\* (full_url, method, status_code), (header_name, header_value, method,
\* status_code) and (method, status_code, host)
C22_LabelsAsDeclared ==
    \A k \in 1..Len(sets), n \in MetricNameSet :
        \A lvs \in DOMAIN Instrument(sets[k], n) :
            /\ Len(lvs) = Len(LabelNames[n])
            /\ \A i \in 1..Len(lvs) : lvs[i] \in LabelValues(LabelNames[n][i])

C22_Witness ==
    /\ \A n \in MetricNameSet : DOMAIN Instrument(sets[1], n) # {}
    /\ \E lvs \in DOMAIN sets[1].requestsByURL :
            /\ lvs[1] = URLString(PostRequest.URL)
            /\ lvs[2] = POST
            /\ lvs[3] = Itoa(500)
    /\ \E lvs \in DOMAIN sets[1].requestsByIP : lvs[2] = Itoa(0) /\ lvs[3] = GET

\* C24: once globalUsageMetrics is not nil, no step (a registerMetrics or
\* Provision call on the same or another registry, succeeding or failing, a
\* Cleanup, a request) replaces it or resets it, and a recording changes no
\* usageMetrics but the one it designates
C24_SetAtMostOnce ==
    [][ globalUsageMetrics # 0 =>
            /\ globalUsageMetrics' = globalUsageMetrics
            /\ \A k \in 1..Len(sets) :
                    sets'[k] = sets[k] \/ k = globalUsageMetrics
      ]_vars

C24_Witness ==
    /\ globalUsageMetrics = 1
    /\ Len(sets) = 3
    /\ registry["R2"]["requests_total"] = 2
    /\ registry["R2"]["request_duration_seconds"] = 2
    /\ last.op = "ServeHTTP"
    /\ DOMAIN sets[1].requestsTotal # {}
    /\ DOMAIN sets[2].requestsTotal = {}
    /\ DOMAIN sets[3].requestsTotal = {}

-----------------------------------------------------------------------------
(* initializeMetrics on every content of a registry: each of the five names *)
(* is free, held by another component's collector with a different          *)
(* descriptor, or held by the instrument of an earlier usageMetrics         *)

InitInitialize ==
    /\ registry \in { [R \in Registries |-> IF R = "R1" THEN reg ELSE EmptyRegistry] :
                        reg \in [MetricNameSet -> {NoInstrument, Foreign, 1}] }
    /\ globalUsageMetrics \in {0, 1}
    /\ sets = <<NewUsageMetrics>>
    /\ loggers = [uc \in Collectors |-> FALSE]
    /\ req = NoRequest
    /\ served = 0
    /\ calls = NoCalls
    /\ regs = NoRegs
    /\ last = [op |-> "none"]

NextInitialize == RegisterMetrics("R1")

SpecInitialize == InitInitialize /\ [][NextInitialize]_vars

\* the positions, in the order of registration, of the names another
\* component holds
Refused(reg) == {i \in 1..Len(MetricNames) : reg[MetricNames[i]] = Foreign}

\* what a name holds after a Register call of the usageMetrics id on it
Attempted(held, id) == IF held = NoInstrument THEN id ELSE held

\* C25: initializeMetrics registers requests_total, requests_by_ip_total,
\* requests_by_url_total, requests_by_headers_total and
\* request_duration_seconds in this order and stops at the first name whose
\* registration fails with another error than AlreadyRegisteredError: the
\* names after it are left as they were, the free names before it now hold
\* the new instruments although the call returns that error and no
\* usageMetrics; with no such name all five are attempted
C25_StopsAtFirstError ==
    [][ last'.op = "registerMetrics" =>
          LET before == registry[last'.registry]
              after  == registry'[last'.registry]
              id     == Len(sets) + 1
          IN  IF Refused(before) = {}
              THEN /\ last'.err = Nil
                   /\ last'.metrics = id
                   /\ \A n \in MetricNameSet : after[n] = Attempted(before[n], id)
              ELSE LET k == CHOOSE i \in Refused(before) :
                                \A j \in Refused(before) : i <= j
                   IN  /\ last'.err = OtherError
                       /\ last'.metrics = 0
                       /\ \A i \in 1..Len(MetricNames) :
                            after[MetricNames[i]] =
                                IF i < k THEN Attempted(before[MetricNames[i]], id)
                                ELSE before[MetricNames[i]]
      ]_vars

C25_Witness ==
    /\ last.op = "registerMetrics"
    /\ last.err = OtherError
    /\ last.metrics = 0
    /\ registry["R1"]["requests_total"] = 2
    /\ registry["R1"]["requests_by_ip_total"] = 1
    /\ registry["R1"]["requests_by_url_total"] = 2
    /\ registry["R1"]["requests_by_headers_total"] = Foreign
    /\ registry["R1"]["request_duration_seconds"] = NoInstrument

-----------------------------------------------------------------------------
(* registerMetrics statement by statement: calls that run at the same time  *)
(* as each other and as ServeHTTP calls. registry.Register is atomic (the   *)
(* registry locks); the read and the write of globalUsageMetrics are two    *)
(* statements without a lock                                                *)

\* line 123 and lines 37-105: the call starts and constructs its usageMetrics;
\* calls start in the order of their numbers
BeginRegister(p, R) ==
    /\ regs[p].pc = "idle"
    /\ \A q \in 1..(p - 1) : regs[q].pc # "idle"
    /\ Len(sets) < MaxSets
    /\ sets' = Append(sets, NewUsageMetrics)
    /\ regs' = [regs EXCEPT ![p] =
                   [@ EXCEPT !.pc = "register", !.registry = R, !.id = NextId, !.i = 1]]
    /\ UNCHANGED <<registry, globalUsageMetrics, loggers, req, served, last, calls>>

\* lines 107-116 and 124-127: one turn of the loop, registry.Register of the
\* i-th collector; the call returns the first error that is not an
\* AlreadyRegisteredError
RegisterCollector(p) ==
    /\ regs[p].pc = "register"
    /\ LET R   == regs[p].registry
           res == Register(registry[R], MetricNames[regs[p].i], regs[p].id)
       IN  /\ registry' = [registry EXCEPT ![R] = res.reg]
           /\ regs' = [regs EXCEPT ![p] =
                          IF res.err # Nil /\ res.err # AlreadyRegisteredError
                          THEN [@ EXCEPT !.pc = "done", !.ret = res.err]
                          ELSE IF regs[p].i = Len(MetricNames)
                          THEN [@ EXCEPT !.pc = "check", !.i = 0]
                          ELSE [@ EXCEPT !.i = regs[p].i + 1]]
    /\ UNCHANGED <<globalUsageMetrics, sets, loggers, req, served, last, calls>>

\* line 131: if globalUsageMetrics == nil
CheckGlobal(p) ==
    /\ regs[p].pc = "check"
    /\ regs' = [regs EXCEPT ![p] =
                   IF globalUsageMetrics = 0
                   THEN [@ EXCEPT !.pc = "assign"]
                   ELSE [@ EXCEPT !.pc = "done", !.ret = Nil]]
    /\ UNCHANGED <<registry, globalUsageMetrics, sets, loggers, req, served, last, calls>>

\* lines 132 and 135: globalUsageMetrics = metrics; return nil
AssignGlobal(p) ==
    /\ regs[p].pc = "assign"
    /\ globalUsageMetrics' = regs[p].id
    /\ regs' = [regs EXCEPT ![p] = [@ EXCEPT !.pc = "done", !.ret = Nil]]
    /\ UNCHANGED <<registry, sets, loggers, req, served, last, calls>>

\* the registerMetrics calls that are under way
Registering == {p \in DOMAIN regs : regs[p].pc \notin {"idle", "done"}}

\* a fresh process: no registration yet, globalUsageMetrics nil
InitRace ==
    /\ registry = [R \in Registries |-> EmptyRegistry]
    /\ globalUsageMetrics = 0
    /\ sets = <<>>
    /\ loggers = [uc \in Collectors |-> TRUE]
    /\ req = NoRequest
    /\ served = 0
    /\ calls = NoCalls
    /\ regs = NoRegs
    /\ last = [op |-> "none"]

\* registerMetrics calls on one registry, at the same time
NextRegister ==
    \/ \E p \in DOMAIN regs : BeginRegister(p, "R1")
    \/ \E p \in DOMAIN regs : RegisterCollector(p)
    \/ \E p \in DOMAIN regs : CheckGlobal(p)
    \/ \E p \in DOMAIN regs : AssignGlobal(p)

SpecRegister == InitRace /\ [][NextRegister]_vars

\* C26: when two registerMetrics calls on the same registry, started with
\* globalUsageMetrics nil, have both returned, however their statements
\* interleaved, both returned nil and globalUsageMetrics is the usageMetrics
\* whose instrument the registry holds under each of the five names
C26_GlobalIsRegistered ==
    (\A p \in DOMAIN regs : regs[p].pc = "done") =>
        /\ \A p \in DOMAIN regs : regs[p].ret = Nil
        /\ \A n \in MetricNameSet : registry["R1"][n] = globalUsageMetrics

-----------------------------------------------------------------------------
(* registerMetrics calls and ServeHTTP calls at the same time, all taken    *)
(* statement by statement                                                   *)

\* the request and the next handler of the specifications with registration
RaceRequests == {r \in LifecycleRequests : r.Method = GET}
RaceOutcomes == {o \in LifecycleOutcomes : o.err = Nil}

NextRace ==
    \/ \E p \in DOMAIN regs : BeginRegister(p, "R1")
    \/ \E p \in DOMAIN regs : RegisterCollector(p)
    \/ \E p \in DOMAIN regs : CheckGlobal(p)
    \/ \E p \in DOMAIN regs : AssignGlobal(p)
    \/ \E g \in DOMAIN calls, uc \in Collectors, r \in RaceRequests, next \in RaceOutcomes :
          Begin(g, uc, r, next)
    \/ \E g \in DOMAIN calls : CallNext(g)
    \/ \E g \in DOMAIN calls : WriteResponse(g)
    \/ \E g \in DOMAIN calls, d \in Durations : EnterCollect(g, d)
    \/ \E g \in DOMAIN calls : IncTotal(g)
    \/ \E g \in DOMAIN calls : IncIP(g)
    \/ \E g \in DOMAIN calls : IncURL(g)
    \/ \E g \in DOMAIN calls : ObserveDuration(g)
    \/ \E g \in DOMAIN calls : IncHeader(g)
    \/ \E g \in DOMAIN calls : Return(g)

SpecRace == InitRace /\ [][NextRace]_vars

\* C27: every update of a collectMetrics call that passed the nil test finds
\* globalUsageMetrics not nil, and every update after the first goes to the
\* usageMetrics the first went to, whatever registerMetrics calls and other
\* collectMetrics calls do in between
C27_OneSetPerCall ==
    [][ \A g \in 1..MaxCalls :
            (calls[g].pc \in {"total", "ip", "url", "duration", "headers"}
                /\ calls'[g] # calls[g]) =>
                /\ globalUsageMetrics # 0
                /\ (calls[g].pc # "total" /\ sets' # sets) =>
                        globalUsageMetrics = calls[g].um
      ]_vars

-----------------------------------------------------------------------------
(* registerMetrics calls one after the other (configurations are loaded one *)
(* at a time) while requests are served                                     *)

NextServeReload ==
    \/ \E p \in DOMAIN regs : Registering = {} /\ BeginRegister(p, "R1")
    \/ \E p \in DOMAIN regs : RegisterCollector(p)
    \/ \E p \in DOMAIN regs : CheckGlobal(p)
    \/ \E p \in DOMAIN regs : AssignGlobal(p)
    \/ \E g \in DOMAIN calls, uc \in Collectors, r \in RaceRequests, next \in LifecycleOutcomes :
          Begin(g, uc, r, next)
    \/ \E g \in DOMAIN calls : CallNext(g)
    \/ \E g \in DOMAIN calls : WriteResponse(g)
    \/ \E g \in DOMAIN calls, d \in Durations : EnterCollect(g, d)
    \/ \E g \in DOMAIN calls : IncTotal(g)
    \/ \E g \in DOMAIN calls : IncIP(g)
    \/ \E g \in DOMAIN calls : IncURL(g)
    \/ \E g \in DOMAIN calls : ObserveDuration(g)
    \/ \E g \in DOMAIN calls : IncHeader(g)
    \/ \E g \in DOMAIN calls : Return(g)

SpecServeReload == InitRace /\ [][NextServeReload]_vars

\* the calls that passed the nil test of collectMetrics
PassedGuard == {g \in DOMAIN calls : calls[g].recorded = 1 /\ ~calls[g].logged}

-----------------------------------------------------------------------------
(* A handler chain with several usage handlers: the next handler of a       *)
(* ServeHTTP call is the ServeHTTP of another UsageCollector, as in a site  *)
(* with `usage` at its top and again inside a handle block                  *)

\* line 182, the next handler being the usage handler uc: call g + 1 starts
\* with the same request; its response writer is the recorder of call g
CallNested(g, uc) ==
    /\ g < MaxCalls
    /\ loggers[uc]
    /\ calls[g].pc = "next"
    /\ calls[g + 1].pc = "idle"
    /\ calls' = [calls EXCEPT
                    ![g].pc = "nested",
                    ![g + 1] = [IdleCall EXCEPT !.pc = "next", !.req = calls[g].req,
                                                !.next = calls[g].next]]
    /\ UNCHANGED <<registry, globalUsageMetrics, sets, loggers, req, served, last, regs>>

\* line 182: the nested usage handler has returned; what it passed on to its
\* response writer went through the recorder of call g to the writer of g
NestedReturns(g) ==
    /\ calls[g].pc = "nested"
    /\ calls[g + 1].pc = "done"
    /\ calls' = [calls EXCEPT ![g] =
                    [@ EXCEPT !.pc = "write",
                              !.rec = calls[g + 1].client,
                              !.client = calls[g + 1].client,
                              !.err = calls[g + 1].ret,
                              !.nextDone = TRUE]]
    /\ UNCHANGED <<registry, globalUsageMetrics, sets, loggers, req, served, last, regs>>

\* one request through a chain of one to MaxCalls usage handlers
NextChain ==
    \/ \E uc \in Collectors, r \in ServeRequests, next \in LifecycleOutcomes :
          Begin(1, uc, r, next)
    \/ \E g \in DOMAIN calls, uc \in Collectors : CallNested(g, uc)
    \/ \E g \in DOMAIN calls : NestedReturns(g)
    \/ \E g \in DOMAIN calls : CallNext(g)
    \/ \E g \in DOMAIN calls : WriteResponse(g)
    \/ \E g \in DOMAIN calls, d \in Durations : EnterCollect(g, d)
    \/ \E g \in DOMAIN calls : IncTotal(g)
    \/ \E g \in DOMAIN calls : IncIP(g)
    \/ \E g \in DOMAIN calls : IncURL(g)
    \/ \E g \in DOMAIN calls : ObserveDuration(g)
    \/ \E g \in DOMAIN calls : IncHeader(g)
    \/ \E g \in DOMAIN calls : Return(g)

SpecChain == InitServe /\ [][NextChain]_vars

\* the usage handlers the request went through
ChainLength == Cardinality({g \in DOMAIN calls : calls[g].pc # "idle"})

\* C29: when a request has gone through a chain of k usage handlers, the one
\* initialized usageMetrics holds k for the request's series of
\* requests_total, of requests_by_ip_total and of requests_by_url_total, and
\* k observations for its series of the histogram: every handler of the chain
\* recorded the request into the same set
C29_RecordedPerHandler ==
    (calls[1].pc = "done" /\ globalUsageMetrics # 0) =>
        LET k  == ChainLength
            um == sets[globalUsageMetrics]
        IN  /\ \A g \in 1..k : calls[g].pc = "done" /\ calls[g].rec = calls[1].rec
            /\ Count(um.requestsTotal, TotalLabels(calls[1])) = k
            /\ Count(um.requestsByIP, IPLabels(calls[1])) = k
            /\ Count(um.requestsByURL, URLLabels(calls[1])) = k
            /\ Total(um.requestsTotal) = k
            /\ Total(um.requestsByIP) = k
            /\ Total(um.requestsByURL) = k
            /\ Total(ObservationCounts(um.requestDuration)) = k

C29_Witness ==
    /\ calls[1].pc = "done"
    /\ calls[2].pc = "done"
    /\ globalUsageMetrics = 1
    /\ calls[1].req = PostRequest
    /\ calls[1].rec = 200
    /\ Count(sets[1].requestsTotal, TotalLabels(calls[1])) = 2
    /\ Count(sets[1].requestsByURL, URLLabels(calls[2])) = 2

====
